---- MODULE Spec2Model ----
(***************************************************************************)
(* VietNet browser: seed resolution (components/utils_search.py), tree     *)
(* nodes (components/class_Node.py) and the request flow of                *)
(* vietnet_browser.py.                                                     *)
(*                                                                         *)
(* Text is a sequence of symbols.  The five characters of the identifier   *)
(* marker "oewn-" are carried as one symbol; "A" is the one upper-case     *)
(* letter and " " the one whitespace character.                            *)
(***************************************************************************)
EXTENDS Integers, Sequences, FiniteSets, TLC

VARIABLES
    lexicon,            \* the graph provider, wn.Wordnet('oewn:2024')
    db,                 \* the stores, one per folder_path
    pc,                 \* position of the script run of vietnet_browser.py
    word,               \* st.text_input
    folder_path,        \* store selected from database_version
    relationship_type,  \* st.selectbox
    max_recursive,      \* st.slider
    synsets,            \* first value returned by search_function
    search_message,     \* second value returned by search_function
    results,            \* local `results` of fuzzy_search_vietnet_search
    calls,              \* the lookups made while serving the request
    families,           \* NodeFamily(...).nodes
    error,              \* the exception that ended the run, or "none"
    reads,              \* the stores (db_path) read while serving the request
    lookup,             \* last call of get_viet_info_from_synset and its value
    tree_node,          \* last call of Node(...) and its value
    matched,            \* last call of exact_search_vietnet_search and its value
    root_synset_id,     \* argument of get_all_hyponyms
    queue,              \* its deque of synsets
    visited,            \* its set of ids seen
    all_hyponyms,       \* its set of ids collected
    popped,             \* the current_id of its loop iterations, in order
    hyponyms,           \* the set it returned, None before it returns
    stage               \* position of the call of get_all_hyponyms

vars == << lexicon, db, pc, word, folder_path, relationship_type,
           max_recursive, synsets, search_message, results, calls,
           families, error, reads, lookup, tree_node, matched,
           root_synset_id, queue, visited, all_hyponyms, popped, hyponyms,
           stage >>

\* The single calls, which the script run does not record.
unit == << lookup, tree_node, matched >>

\* The call of get_all_hyponyms (vietnet_wn_lmf_project).
bfs == << root_synset_id, queue, visited, all_hyponyms, popped, hyponyms,
         stage >>

---------------------------------------------------------------------------
\* Bounds of the model.
MaxLen == 3
MaxRows == 2
MaxDepth == 2
MaxDataRows == 2

---------------------------------------------------------------------------
\* Python values.
None == [kind |-> "None"]
Str(s) == [kind |-> "str", value |-> s]
Synset(id) == [kind |-> "Synset", id |-> id]
Raise(type) == [kind |-> "Error", type |-> type]

Range(s) == {s[i] : i \in 1..Len(s)}
Max(a, b) == IF a >= b THEN a ELSE b
SeqsUpTo(S, n) == UNION {[1..k -> S] : k \in 0..n}

\* list[:n]
Slice(s, n) == SubSeq(s, 1, IF Len(s) < n THEN Len(s) ELSE n)

\* sep.join(list)
RECURSIVE Join(_, _)
Join(sep, list) ==
    IF list = <<>> THEN <<>>
    ELSE IF Len(list) = 1 THEN <<list[1]>>
    ELSE <<list[1], sep>> \o Join(sep, Tail(list))

---------------------------------------------------------------------------
\* Text.
Marker == "oewn-"
Char == {"a", "A", " ", Marker}
Text == SeqsUpTo(Char, MaxLen)

HasMarkerAtStart(s) == s # <<>> /\ s[1] = Marker

\* "oewn-" in user_input
HasMarker(s) == \E i \in 1..Len(s) : s[i] = Marker

lower(s) == [i \in 1..Len(s) |-> IF s[i] = "A" THEN "a" ELSE s[i]]

RECURSIVE lstrip(_)
lstrip(s) == IF s # <<>> /\ Head(s) = " " THEN lstrip(Tail(s)) ELSE s

RECURSIVE rstrip(_)
rstrip(s) ==
    IF s # <<>> /\ s[Len(s)] = " " THEN rstrip(SubSeq(s, 1, Len(s) - 1)) ELSE s

strip(s) == rstrip(lstrip(s))

normalizeKeepingCase(text) == strip(text)

\* text.lower().strip()
normalize(text) == strip(lower(text))

---------------------------------------------------------------------------
\* rapidfuzz.fuzz.ratio: 100 * (1 - indel(a, b) / (len a + len b)), where
\* indel(a, b) = len a + len b - 2 * lcs(a, b); 100 for two empty strings.
\* The score is kept as a fraction in lowest terms <<numerator, denominator>>.
RECURSIVE LCS(_, _)
LCS(a, b) ==
    IF a = <<>> \/ b = <<>> THEN 0
    ELSE IF Head(a) = Head(b) THEN 1 + LCS(Tail(a), Tail(b))
    ELSE Max(LCS(Tail(a), b), LCS(a, Tail(b)))

RECURSIVE GCD(_, _)
GCD(m, n) == IF n = 0 THEN m ELSE GCD(n, m % n)

Fraction(n, d) == LET g == GCD(n, d) IN << n \div g, d \div g >>

ratio(a, b) ==
    IF Len(a) + Len(b) = 0 THEN << 100, 1 >>
    ELSE Fraction(200 * LCS(a, b), Len(a) + Len(b))

AtLeastStrict(score, threshold) == score[1] > threshold * score[2]

\* score >= threshold, score1 >= score2
AtLeast(score, threshold) == score[1] >= threshold * score[2]
Geq(s1, s2) == s1[1] * s2[2] >= s2[1] * s1[2]

---------------------------------------------------------------------------
\* The stores.  Each folder_path names one database with the tables
\* VIETNET_EXACT_SEARCH (tieng, synset_id), VIETNET_FUZZ_SEARCH (tieng, word)
\* and VIETNET_DATA (synset_id, viet_word, viet_definition, viet_example).
FolderV1 == "data/vietnet_data_v1"
FolderV2 == "data/vietnet_data_v2"
Folders == {FolderV1, FolderV2}

IdA == << Marker, "a" >>
IdB == << Marker, "A" >>
SynsetIds == {IdA, IdB}

ExactRows ==
    { [tieng |-> << "a" >>, synset_id |-> IdA],
      [tieng |-> << "A", " " >>, synset_id |-> IdB] }
ExactTables == SeqsUpTo(ExactRows, MaxRows)

FuzzRow(t, w) == [tieng |-> t, word |-> w]
FuzzTable ==
    << FuzzRow(<< "a", "a", "a" >>, "w1"),
       FuzzRow(<< "A", "A", "A" >>, "w2"),
       FuzzRow(<< "a", "a", "a", "a" >>, "w3"),
       FuzzRow(<< " ", "a", "a", " ", "a" >>, "w4"),
       FuzzRow(<< "a", "a" >>, "w5"),
       FuzzRow(<< "A", "a", " " >>, "w1"),
       FuzzRow(<< "a", "a", "a" >>, "w1"),
       FuzzRow(<< "a", Marker >>, "w6") >>

DataRow(id, w, d, e) ==
    [synset_id |-> id, viet_word |-> w, viet_definition |-> d,
     viet_example |-> e]
DataTable ==
    << DataRow(IdA, "tu1", Str("A"), None),
       DataRow(IdA, "tu2", Str("B"), Str("ex1")) >>

StoreV2 ==
    [exact |-> << [tieng |-> << " ", "A" >>, synset_id |-> IdB],
                  [tieng |-> << "a", " ", "a" >>, synset_id |-> IdA] >>,
     fuzz |-> << FuzzRow(<< "a", " ", "a" >>, "v1"),
                 FuzzRow(<< "a", "a" >>, "v2") >>,
     data |-> << DataRow(IdB, "tu3", None, Str("ex2")) >>]

---------------------------------------------------------------------------
\* The graph provider (the wn library).  `ids` are the synsets it holds,
\* `senses` its word forms, `relations` the outgoing relations of each synset
\* in the provider's order.  `missing` is what synset(id) does for an id it
\* does not hold: search_function tests the returned value for truth
\* ("None"), get_all_hyponyms and extract_domain_relations catch the
\* exception it raises ("Error").
RelationKinds == {"hypernym", "hyponym", "meronym", "holonym"}

Senses(ids) ==
    { <<>>,
      << [form |-> << "a" >>, pos |-> "v", id |-> IdA] >>,
      IF IdB \in ids
      THEN << [form |-> << "a" >>, pos |-> "n", id |-> IdB],
              [form |-> << "a" >>, pos |-> "v", id |-> IdA],
              [form |-> << "a" >>, pos |-> "n", id |-> IdA] >>
      ELSE << [form |-> << "a" >>, pos |-> "n", id |-> IdA],
              [form |-> << "A" >>, pos |-> "n", id |-> IdA] >> }

\* A graph with a self-loop and, when both synsets exist, a two-cycle.
Relations(ids) ==
    [id \in ids |->
        [k \in RelationKinds |->
            IF k = "hyponym"
            THEN (IF IdB \in ids THEN << IdB, IdA >> ELSE << IdA >>)
            ELSE IF k = "hypernym" /\ id = IdB THEN << IdA >>
            ELSE <<>>]]

Lexicons ==
    UNION {{ [ids |-> ids, senses |-> s, relations |-> Relations(ids),
              missing |-> m] : s \in Senses(ids), m \in {"None", "Error"} }
           : ids \in {{IdA}, {IdA, IdB}}}

\* lexicon.synset(ssid)
LexSynset(lex, ssid) ==
    IF ssid \in lex.ids THEN Synset(ssid)
    ELSE IF lex.missing = "None" THEN None
    ELSE Raise("wn.Error")

\* lexicon.synsets(form, pos=pos)
LexSynsets(lex, form, pos) ==
    LET hits == SelectSeq(lex.senses, LAMBDA r : r.form = form /\ r.pos = pos)
    IN  [i \in 1..Len(hits) |-> Synset(hits[i].id)]

---------------------------------------------------------------------------
\* exact_search_vietnet_search
exact_search_vietnet_search(user_input, db_path) ==
    LET query == normalize(user_input)
        hits == SelectSeq(db[db_path].exact,
                          LAMBDA row : query = normalize(row.tieng))
    IN  [i \in 1..Len(hits) |-> hits[i].synset_id]

\* The orders list(set(results)) followed by results.sort(key=-score) can
\* leave: descending by score, equal scores in any order.
RECURSIVE SortedOrders(_)
SortedOrders(S) ==
    IF S = {} THEN { <<>> }
    ELSE LET top == {m \in S : \A x \in S : Geq(m[2], x[2])}
         IN  UNION {{ << m >> \o t : t \in SortedOrders(S \ {m}) } : m \in top}

Threshold == 80

\* fuzzy_search_vietnet_search up to its return statement: the possible values
\* of the local `results`, a list of (word, score).
FuzzyResults(user_input, db_path, threshold) ==
    LET query == normalize(user_input)
        rows == db[db_path].fuzz
        kept == { << rows[i].word, ratio(query, normalize(rows[i].tieng)) >> :
                  i \in {j \in 1..Len(rows) :
                          AtLeast(ratio(query, normalize(rows[j].tieng)),
                                  threshold)} }
    IN  SortedOrders(kept)

\* return [word for word, _ in results]
FuzzyWords(res) == [i \in 1..Len(res) |-> res[i][1]]

---------------------------------------------------------------------------
\* search_function.  Its value is the set of outcomes the call can have: the
\* order of list(set(result)) and of equal fuzzy scores is not fixed by the
\* code.  An outcome is the returned pair (synsets, message), or the exception
\* that left the function; `results` and `calls` record the fuzzy matcher's
\* local list and the lookups made.
Outcome(raised, list, message, res, made) ==
    [raised |-> raised, synsets |-> list, message |-> message,
     results |-> res, calls |-> made]

SsidUntrimmed(user_input) == user_input

\* ssid = user_input.strip()
Ssid(user_input) == strip(user_input)

NotExistMessageAbsent(ssid) == None

\* f"Synset_ID {ssid} không tồn tại"
NotExistMessage(ssid) == [kind |-> "Synset_ID khong ton tai", ssid |-> ssid]

SuggestMessageSix(recommended_search) ==
    [kind |-> "Ban hay thu tim cac tu sau",
     suggestion |-> Join(" | ", Slice(recommended_search, 6))]

\* suggestion = ' | '.join(recommended_search[:5]);
\* f"Bạn hãy thử tìm các từ sau: {suggestion}"
SuggestMessage(recommended_search) ==
    [kind |-> "Ban hay thu tim cac tu sau",
     suggestion |-> Join(" | ", Slice(recommended_search, 5))]

\* list(set(result)): the elements once each, in any order
ListOfSet(result) ==
    LET S == Range(result)
    IN  {s \in [1..Cardinality(S) -> S] : Range(s) = S}

search_function(user_input, lex, db_path) ==
    IF HasMarker(user_input)
    THEN LET ssid == Ssid(user_input)
             found == LexSynset(lex, ssid)
         IN  IF found.kind = "Error"
             THEN { Outcome(found.type, <<>>, None, <<>>, {"synset"}) }
             ELSE IF found.kind # "None"
             THEN { Outcome("none", << Str(ssid) >>, None, <<>>, {"synset"}) }
             ELSE { Outcome("none", <<>>, NotExistMessage(ssid), <<>>,
                            {"synset"}) }
    ELSE LET temp == exact_search_vietnet_search(user_input, db_path)
             looked == [i \in 1..Len(temp) |-> LexSynset(lex, temp[i])]
             result == looked \o LexSynsets(lex, user_input, "n")
             made1 == {"exact"} \cup (IF temp # <<>> THEN {"synset"} ELSE {})
         IN  IF \E i \in 1..Len(looked) : looked[i].kind = "Error"
             THEN { Outcome("wn.Error", <<>>, None, <<>>, made1) }
             ELSE IF result = <<>>
             THEN { Outcome("none", <<>>, SuggestMessage(FuzzyWords(res)), res,
                            made1 \cup {"synsets", "fuzzy"}) :
                    res \in FuzzyResults(user_input, db_path, Threshold) }
             ELSE { Outcome("none", list, None, <<>>, made1 \cup {"synsets"}) :
                    list \in ListOfSet(result) }

---------------------------------------------------------------------------
\* get_viet_info_from_synset.  A piece f"{n}. {text} | " of an aggregated
\* string is the four symbols of its number, ". ", its text and " | "; a null
\* value is formatted as the text "None".
Piece(n, value) ==
    << ToString(n), ". ", IF value = None THEN "None" ELSE value.value,
       " | " >>

RECURSIVE DefinitionsSkippingNull(_, _)
DefinitionsSkippingNull(definitions_list, i) ==
    IF i >= Len(definitions_list) THEN <<>>
    ELSE (IF definitions_list[i + 1] = None THEN <<>>
          ELSE Piece(i + 1, definitions_list[i + 1]))
         \o DefinitionsSkippingNull(definitions_list, i + 1)

\* for i in range(len(definitions_list)):
\*     definitions += f"{i+1}. {definitions_list[i]} | "
RECURSIVE Definitions(_, _)
Definitions(definitions_list, i) ==
    IF i >= Len(definitions_list) THEN <<>>
    ELSE Piece(i + 1, definitions_list[i + 1])
         \o Definitions(definitions_list, i + 1)

RECURSIVE ExamplesByRowIndex(_, _)
ExamplesByRowIndex(examples_list, ex_count) ==
    IF examples_list = <<>> THEN <<>>
    ELSE (IF Head(examples_list) # None
          THEN Piece(ex_count + 1, Head(examples_list)) ELSE <<>>)
         \o ExamplesByRowIndex(Tail(examples_list), ex_count + 1)

\* for i in range(len(examples_list)):
\*     if examples_list[i] is not None:
\*         examples += f"{ex_count+1}. {examples_list[i]} | "; ex_count += 1
RECURSIVE Examples(_, _)
Examples(examples_list, ex_count) ==
    IF examples_list = <<>> THEN <<>>
    ELSE IF Head(examples_list) # None
    THEN Piece(ex_count + 1, Head(examples_list))
         \o Examples(Tail(examples_list), ex_count + 1)
    ELSE Examples(Tail(examples_list), ex_count)

get_viet_info_from_synset(synset_id, db_path) ==
    LET df_search == SelectSeq(db[db_path].data,
                               LAMBDA row : row.synset_id = synset_id)
        n == Len(df_search)
        lemmas_list == [i \in 1..n |-> df_search[i].viet_word]
        definitions_list == [i \in 1..n |-> df_search[i].viet_definition]
        examples_list == [i \in 1..n |-> df_search[i].viet_example]
    IN  IF df_search # <<>>
        THEN [viet_word |-> Str(Join(", ", lemmas_list)),
              viet_definition |-> Str(Definitions(definitions_list, 0)),
              viet_example |-> Str(Examples(examples_list, 0))]
        ELSE [viet_word |-> None, viet_definition |-> None,
              viet_example |-> None]

---------------------------------------------------------------------------
\* Node.__init__: the node, or the exception that left the constructor.
\* synset.id needs a Synset (a str or None has no attribute id);
\* search_result['is_same'] needs that key in the dict returned by
\* get_viet_info_from_synset.
Lemmas(synset) ==
    LET hits == SelectSeq(lexicon.senses, LAMBDA r : r.id = synset.id)
    IN  Join(", ", [i \in 1..Len(hits) |-> hits[i].form])

\* An exception raised after the store at db_path was read.
RaiseAfterRead(type, db_path) ==
    [kind |-> "Error", type |-> type, read |-> db_path]

Node__init__FirstStore(synset, path, recursive_level) ==
    IF synset.kind # "Synset" THEN Raise("AttributeError")
    ELSE LET found == get_viet_info_from_synset(synset.id, FolderV1)
         IN  IF "is_same" \notin DOMAIN found
             THEN RaiseAfterRead("KeyError", FolderV1)
             ELSE [kind |-> "Node",
                   _synset |-> synset,
                   _viet_lemmas |-> found.viet_word,
                   _viet_definition |-> found.viet_definition,
                   _viet_example |-> found.viet_example,
                   _is_same |-> found.is_same,
                   _lemmas |-> Lemmas(synset),
                   _level |-> recursive_level,
                   _children |-> <<>>,
                   read |-> FolderV1]

\* Node.__init__(self, synset, folder_path, recursive_level).  `read` is the
\* store the constructor read, kept beside the node's fields.
Node__init__(synset, path, recursive_level) ==
    IF synset.kind # "Synset" THEN Raise("AttributeError")
    ELSE LET found == get_viet_info_from_synset(synset.id, path)
         IN  IF "is_same" \notin DOMAIN found
             THEN RaiseAfterRead("KeyError", path)
             ELSE [kind |-> "Node",
                   _synset |-> synset,
                   _viet_lemmas |-> found.viet_word,
                   _viet_definition |-> found.viet_definition,
                   _viet_example |-> found.viet_example,
                   _is_same |-> found.is_same,
                   _lemmas |-> Lemmas(synset),
                   _level |-> recursive_level,
                   _children |-> <<>>,
                   read |-> path]

\* The first of a list of constructions that raised, or None.
RECURSIVE FirstError(_)
FirstError(list) ==
    IF list = <<>> THEN None
    ELSE IF Head(list).kind = "Error" THEN Head(list)
    ELSE FirstError(Tail(list))

\* Forest construction (components/class_NodeFamily.py): a Node per seed at
\* level 0; a node below max_recursive gets one child per target of its
\* synset's relations of the selected kind, in the provider's order.
RECURSIVE Expand(_, _, _, _, _)
Expand(synset, relation, path, level, max) ==
    LET node == Node__init__(synset, path, level)
    IN  IF node.kind = "Error" \/ level >= max THEN node
        ELSE LET targets == lexicon.relations[synset.id][relation]
                 kids == [i \in 1..Len(targets) |->
                             Expand(Synset(targets[i]), relation, path,
                                    level + 1, max)]
             IN  IF FirstError(kids) # None THEN FirstError(kids)
                 ELSE [node EXCEPT !._children = kids]

\* Every node of a forest.
RECURSIVE Nodes(_)
Nodes(list) ==
    UNION { {list[i]} \cup Nodes(list[i]._children) : i \in 1..Len(list) }

\* The stores read by a call of NodeFamily that ended with `built`.
StoresRead(built) ==
    IF built.kind = "Error"
    THEN (IF "read" \in DOMAIN built THEN {built.read} ELSE {})
    ELSE {n.read : n \in Nodes(built.nodes)}

NodeFamily(seeds, relation, path, max) ==
    LET nodes == [i \in 1..Len(seeds) |->
                     Expand(seeds[i], relation, path, 0, max)]
    IN  IF FirstError(nodes) # None THEN FirstError(nodes)
        ELSE [kind |-> "NodeFamily", nodes |-> nodes]

\* get_all_hyponyms has not been called.
BfsIdle ==
    /\ root_synset_id = <<>>
    /\ queue = <<>>
    /\ visited = {}
    /\ all_hyponyms = {}
    /\ popped = <<>>
    /\ hyponyms = None
    /\ stage = "idle"

---------------------------------------------------------------------------
\* One script run of vietnet_browser.py per submitted word.
Init ==
    /\ lexicon \in Lexicons
    /\ \E exact \in ExactTables :
          db = [p \in Folders |->
                   IF p = FolderV1
                   THEN [exact |-> exact, fuzz |-> FuzzTable,
                         data |-> DataTable]
                   ELSE StoreV2]
    /\ pc = "idle"
    /\ word = <<>>
    /\ folder_path = ""
    /\ relationship_type = "hypernym"
    /\ max_recursive = 1
    /\ synsets = <<>>
    /\ search_message = None
    /\ results = <<>>
    /\ calls = {}
    /\ families = <<>>
    /\ error = "none"
    /\ reads = {}
    /\ lookup = None
    /\ tree_node = None
    /\ matched = None
    /\ BfsIdle

\* if word: ... synsets, search_message = search_function(word, lexicon,
\* folder_path)
Submit(w, path) ==
    /\ pc = "idle"
    /\ w # <<>>
    /\ \E out \in search_function(w, lexicon, path) :
          /\ synsets' = out.synsets
          /\ search_message' = out.message
          /\ results' = out.results
          /\ calls' = out.calls
          /\ error' = out.raised
          /\ pc' = IF out.raised = "none" THEN "searched" ELSE "search_raised"
          /\ reads' = IF out.calls \cap {"exact", "fuzzy"} # {}
                       THEN {path} ELSE {}
    /\ word' = w
    /\ folder_path' = path
    /\ UNCHANGED << lexicon, db, relationship_type, max_recursive, families,
                    unit >>
    /\ UNCHANGED bfs

\* if search_message: st.text(search_message)
ShowMessage ==
    /\ pc = "searched"
    /\ search_message # None
    /\ pc' = "shown"
    /\ UNCHANGED << lexicon, db, word, folder_path, relationship_type,
                    max_recursive, synsets, search_message, results, calls,
                    families, error, reads, unit >>
    /\ UNCHANGED bfs

\* else: families = NodeFamily(synsets, relationship_type, folder_path,
\* max_recursive), with the widgets' values as read by this call
Build(relation, depth) ==
    /\ pc = "searched"
    /\ search_message = None
    /\ relationship_type' = relation
    /\ max_recursive' = depth
    /\ LET built == NodeFamily(synsets, relation, folder_path, depth)
       IN  IF built.kind = "Error"
           THEN /\ pc' = "build_raised"
                /\ error' = built.type
                /\ families' = <<>>
           ELSE /\ pc' = "built"
                /\ error' = "none"
                /\ families' = built.nodes
    /\ reads' = reads \cup StoresRead(NodeFamily(synsets, relation,
                                                  folder_path, depth))
    /\ UNCHANGED << lexicon, db, word, folder_path, synsets, search_message,
                    results, calls, unit >>
    /\ UNCHANGED bfs

\* The next script run starts from the top.
Rerun ==
    /\ pc \in {"shown", "built", "build_raised", "search_raised"}
    /\ pc' = "idle"
    /\ word' = <<>>
    /\ folder_path' = ""
    /\ relationship_type' = "hypernym"
    /\ max_recursive' = 1
    /\ synsets' = <<>>
    /\ search_message' = None
    /\ results' = <<>>
    /\ calls' = {}
    /\ families' = <<>>
    /\ error' = "none"
    /\ reads' = {}
    /\ UNCHANGED << lexicon, db, unit >>
    /\ UNCHANGED bfs

Next ==
    \/ \E w \in Text, path \in Folders : Submit(w, path)
    \/ ShowMessage
    \/ \E relation \in RelationKinds, depth \in 1..MaxDepth :
          Build(relation, depth)
    \/ Rerun

Spec == Init /\ [][Next]_vars

---------------------------------------------------------------------------
\* The single calls of the annotation lookup and of the Node constructor, on
\* any content of VIETNET_DATA, interleaved with calls of search_function.
DataRows ==
    { DataRow(IdA, "tu1", Str("A"), None),
      DataRow(IdA, "tu2", Str("B"), Str("ex1")),
      DataRow(IdA, "tu3", None, None),
      DataRow(IdA, "tu4", None, Str("ex2")),
      DataRow(IdB, "tu5", Str("A"), Str("ex1")) }
DataTables == SeqsUpTo(DataRows, MaxDataRows)

LookupLexicon ==
    [ids |-> SynsetIds,
     senses |-> << [form |-> << "a" >>, pos |-> "n", id |-> IdB],
                   [form |-> << "a" >>, pos |-> "n", id |-> IdA] >>,
     relations |-> Relations(SynsetIds),
     missing |-> "Error"]

LookupQueries == { << "a" >>, << Marker, "a" >> }
LookupSeeds == { Synset(IdA), Synset(IdB), Str(IdA) }

InitLookup ==
    /\ lexicon = LookupLexicon
    /\ \E data \in DataTables :
          db = [p \in Folders |->
                   IF p = FolderV1
                   THEN [exact |-> <<>>, fuzz |-> FuzzTable, data |-> data]
                   ELSE StoreV2]
    /\ pc = "idle"
    /\ word = <<>>
    /\ folder_path = ""
    /\ relationship_type = "hypernym"
    /\ max_recursive = 1
    /\ synsets = <<>>
    /\ search_message = None
    /\ results = <<>>
    /\ calls = {}
    /\ families = <<>>
    /\ error = "none"
    /\ reads = {}
    /\ lookup = None
    /\ tree_node = None
    /\ matched = None
    /\ BfsIdle

Called(synset_id, db_path) ==
    [synset_id |-> synset_id, db_path |-> db_path,
     value |-> get_viet_info_from_synset(synset_id, db_path)]

LookupConsuming(synset_id, db_path) ==
    /\ lookup' = Called(synset_id, db_path)
    /\ db' = [db EXCEPT ![db_path].data =
                  SelectSeq(@, LAMBDA row : row.synset_id # synset_id)]
    /\ UNCHANGED << lexicon, pc, word, folder_path, relationship_type,
                    max_recursive, synsets, search_message, results, calls,
                    families, error, reads, tree_node, matched >>
    /\ UNCHANGED bfs

\* get_viet_info_from_synset(synset_id, db_path)
Lookup(synset_id, db_path) ==
    /\ lookup' = Called(synset_id, db_path)
    /\ UNCHANGED << lexicon, db, pc, word, folder_path, relationship_type,
                    max_recursive, synsets, search_message, results, calls,
                    families, error, reads, tree_node, matched >>
    /\ UNCHANGED bfs

\* Node(synset, db_path): the constructor calls get_viet_info_from_synset
\* once it has read synset.id.
Construct(synset, db_path) ==
    /\ tree_node' = [synset |-> synset, db_path |-> db_path,
                     value |-> Node__init__(synset, db_path, 0)]
    /\ lookup' = IF synset.kind = "Synset" THEN Called(synset.id, db_path)
                 ELSE lookup
    /\ UNCHANGED << lexicon, db, pc, word, folder_path, relationship_type,
                    max_recursive, synsets, search_message, results, calls,
                    families, error, reads, matched >>
    /\ UNCHANGED bfs

\* search_function(w, lexicon, db_path)
Resolve(w, db_path) ==
    /\ \E out \in search_function(w, lexicon, db_path) :
          /\ synsets' = out.synsets
          /\ search_message' = out.message
          /\ results' = out.results
          /\ calls' = out.calls
          /\ error' = out.raised
    /\ word' = w
    /\ folder_path' = db_path
    /\ UNCHANGED << lexicon, db, pc, relationship_type, max_recursive,
                    families, reads, unit >>
    /\ UNCHANGED bfs

NextLookup ==
    \/ \E id \in SynsetIds, path \in Folders : Lookup(id, path)
    \/ \E seed \in LookupSeeds, path \in Folders : Construct(seed, path)
    \/ \E w \in LookupQueries, path \in Folders : Resolve(w, path)

SpecLookup == InitLookup /\ [][NextLookup]_vars

---------------------------------------------------------------------------
\* The two matchers called on their own: one call of
\* exact_search_vietnet_search or of fuzzy_search_vietnet_search, for any
\* query and any content of VIETNET_EXACT_SEARCH.
MatchRows ==
    { [tieng |-> << " ", "a", " ", "A" >>, synset_id |-> IdA],
      [tieng |-> << "a", "a" >>, synset_id |-> IdB],
      [tieng |-> << "A", " " >>, synset_id |-> IdB] }
MatchTables == SeqsUpTo(MatchRows, MaxRows)

InitMatch ==
    /\ lexicon = LookupLexicon
    /\ \E exact \in MatchTables :
          db = [p \in Folders |->
                   IF p = FolderV1
                   THEN [exact |-> exact, fuzz |-> FuzzTable,
                         data |-> DataTable]
                   ELSE StoreV2]
    /\ pc = "idle"
    /\ word \in Text
    /\ folder_path \in Folders
    /\ relationship_type = "hypernym"
    /\ max_recursive = 1
    /\ synsets = <<>>
    /\ search_message = None
    /\ results = <<>>
    /\ calls = {}
    /\ families = <<>>
    /\ error = "none"
    /\ reads = {}
    /\ lookup = None
    /\ tree_node = None
    /\ matched = None
    /\ BfsIdle

\* exact_search_vietnet_search(word, folder_path)
Exact ==
    /\ matched = None
    /\ matched' = [matcher |-> "exact", results |-> <<>>,
                   value |-> exact_search_vietnet_search(word, folder_path)]
    /\ UNCHANGED << lexicon, db, pc, word, folder_path, relationship_type,
                    max_recursive, synsets, search_message, results, calls,
                    families, error, reads, lookup, tree_node >>
    /\ UNCHANGED bfs

\* fuzzy_search_vietnet_search(word, folder_path), threshold at its default
Suggest ==
    /\ matched = None
    /\ \E res \in FuzzyResults(word, folder_path, Threshold) :
          matched' = [matcher |-> "fuzzy", results |-> res,
                      value |-> FuzzyWords(res)]
    /\ UNCHANGED << lexicon, db, pc, word, folder_path, relationship_type,
                    max_recursive, synsets, search_message, results, calls,
                    families, error, reads, lookup, tree_node >>
    /\ UNCHANGED bfs

NextMatch == Exact \/ Suggest

SpecMatch == InitMatch /\ [][NextMatch]_vars

---------------------------------------------------------------------------
\* get_all_hyponyms(root_synset_id), one call on any hyponym graph over three
\* synsets, for a root the provider holds or does not hold.
IdC == << Marker, "a", "a" >>
IdUnknown == << Marker >>
HypIds == {IdA, IdB, IdC}

\* relations()['hyponym'] of one synset: synsets of the graph, each once.
HyponymLists ==
    { list \in SeqsUpTo(HypIds, Cardinality(HypIds)) :
        \A i, j \in 1..Len(list) : i # j => list[i] # list[j] }

HyponymGraph(g) ==
    [ids |-> HypIds,
     senses |-> <<>>,
     relations |-> [id \in HypIds |->
                      [k \in RelationKinds |->
                          IF k = "hyponym" THEN g[id] ELSE <<>>]],
     missing |-> "Error"]

InitHyponyms ==
    /\ \E g \in [HypIds -> HyponymLists] : lexicon = HyponymGraph(g)
    /\ db = [p \in Folders |->
                IF p = FolderV1
                THEN [exact |-> <<>>, fuzz |-> FuzzTable, data |-> DataTable]
                ELSE StoreV2]
    /\ pc = "idle"
    /\ word = <<>>
    /\ folder_path = ""
    /\ relationship_type = "hypernym"
    /\ max_recursive = 1
    /\ synsets = <<>>
    /\ search_message = None
    /\ results = <<>>
    /\ calls = {}
    /\ families = <<>>
    /\ error = "none"
    /\ reads = {}
    /\ lookup = None
    /\ tree_node = None
    /\ matched = None
    /\ root_synset_id \in HypIds \cup {IdUnknown}
    /\ queue = <<>>
    /\ visited = {}
    /\ all_hyponyms = {}
    /\ popped = <<>>
    /\ hyponyms = None
    /\ stage = "idle"

script == << lexicon, db, pc, word, folder_path, relationship_type,
            max_recursive, synsets, search_message, results, calls,
            families, error, reads, unit >>

\* A returned set.
SetOf(S) == [kind |-> "set", value |-> S]

InitialVisitedEmpty(root) == {}

\* visited = set([root_synset_id])
InitialVisited(root) == {root}

\* try: root_synset = wn.synset(root_synset_id, lexicon=lexicon)
\* except: return set()
\* all_hyponyms = set(); queue = deque([root_synset]); visited = ...
Call ==
    /\ stage = "idle"
    /\ LET root_synset == LexSynset(lexicon, root_synset_id)
       IN  IF root_synset.kind = "Error"
           THEN /\ hyponyms' = SetOf({})
                /\ stage' = "returned"
                /\ UNCHANGED << queue, visited, all_hyponyms >>
           ELSE /\ all_hyponyms' = {}
                /\ queue' = << root_synset >>
                /\ visited' = InitialVisited(root_synset_id)
                /\ stage' = "loop"
                /\ UNCHANGED hyponyms
    /\ UNCHANGED << root_synset_id, popped, script >>

\* for hyponym in relations['hyponym']: the sets and the queue after the
\* loop over `list`, started from `seen`, `found_ids` and `waiting`.
RECURSIVE Scan(_, _, _, _)
Scan(list, seen, found_ids, waiting) ==
    IF list = <<>>
    THEN [visited |-> seen, all_hyponyms |-> found_ids, queue |-> waiting]
    ELSE LET hyponym_id == Head(list)
         IN  IF hyponym_id \notin seen
             THEN Scan(Tail(list), seen \cup {hyponym_id},
                       found_ids \cup {hyponym_id},
                       Append(waiting, Synset(hyponym_id)))
             ELSE Scan(Tail(list), seen, found_ids, waiting)

\* One iteration of `while queue:`.
Iterate ==
    /\ stage = "loop"
    /\ queue # <<>>
    /\ LET current_synset == Head(queue)
       IN  IF current_synset.kind # "Synset"
           THEN /\ stage' = "raised"
                /\ queue' = Tail(queue)
                /\ UNCHANGED << visited, all_hyponyms, popped >>
           ELSE LET current_id == current_synset.id
                    after == Scan(lexicon.relations[current_id]["hyponym"],
                                  visited, all_hyponyms, Tail(queue))
                IN  /\ queue' = after.queue
                    /\ visited' = after.visited
                    /\ all_hyponyms' = after.all_hyponyms
                    /\ popped' = Append(popped, current_id)
                    /\ UNCHANGED stage
    /\ UNCHANGED << root_synset_id, hyponyms, script >>

\* return all_hyponyms
Return ==
    /\ stage = "loop"
    /\ queue = <<>>
    /\ hyponyms' = SetOf(all_hyponyms)
    /\ stage' = "returned"
    /\ UNCHANGED << root_synset_id, queue, visited, all_hyponyms, popped,
                    script >>

NextHyponyms == Call \/ Iterate \/ Return

SpecHyponyms == InitHyponyms /\ [][NextHyponyms]_vars

\* The call, once started, runs on: it is sequential code.
SpecHyponymsFair == SpecHyponyms /\ WF_vars(NextHyponyms)

---------------------------------------------------------------------------
\* Properties of seed resolution.

\* search_function has returned (synsets, search_message) for `word`.
Returned == pc \in {"searched", "shown", "built", "build_raised"}
\* search_function has been called for `word` and has ended.
Ended == pc # "idle"

ExactHits == exact_search_vietnet_search(word, folder_path)
LemmaHits == LexSynsets(lexicon, word, "n")

\* The words of a string joined with " | ".
Suggestions(joined) ==
    [i \in 1..((Len(joined) + 1) \div 2) |-> joined[2 * i - 1]]

\* C1: a query carrying the marker whose trimmed text is an id the graph
\* provider holds resolves to exactly that id, with no message.
C1_ExplicitValid ==
    (Ended /\ HasMarker(word) /\ strip(word) \in lexicon.ids)
        => /\ Returned
           /\ synsets = << Str(strip(word)) >>
           /\ search_message = None

C1_Witness ==
    /\ pc = "searched"
    /\ HasMarker(word)
    /\ strip(word) \in lexicon.ids
    /\ strip(word) # word
    /\ synsets = << Str(strip(word)) >>

\* C2: a query carrying the marker whose id the graph provider does not hold
\* returns the "does not exist" message with no candidate and no suggestion,
\* and the fuzzy matcher is not consulted.
C2_ExplicitMissing ==
    (Ended /\ HasMarker(word) /\ strip(word) \notin lexicon.ids)
        => /\ Returned
           /\ synsets = <<>>
           /\ search_message = NotExistMessage(strip(word))
           /\ results = <<>>
           /\ "fuzzy" \notin calls

\* C3: a free-text query with an exact store match or a noun-lemma match is
\* resolved, and no candidate occurs twice.
C3_ResolvedNoDuplicates ==
    (Ended /\ ~HasMarker(word) /\ (ExactHits # <<>> \/ LemmaHits # <<>>))
        => /\ Returned
           /\ search_message = None
           /\ synsets # <<>>
           /\ \A i, j \in 1..Len(synsets) : synsets[i] = synsets[j] => i = j

\* C4: a free-text query with no exact store match and no noun-lemma match is
\* unresolved; the message names at most 5 suggestions, each the word of an
\* index row with the score that row has against the query, in order of
\* non-increasing score.
C4_Suggestions ==
    (Ended /\ ~HasMarker(word) /\ ExactHits = <<>> /\ LemmaHits = <<>>)
        => /\ Returned
           /\ synsets = <<>>
           /\ search_message # None
           /\ LET said == Suggestions(search_message.suggestion)
              IN  /\ Len(said) <= 5
                  /\ Len(said) <= Len(results)
                  /\ \A i \in 1..Len(said) :
                        /\ said[i] = results[i][1]
                        /\ \E row \in Range(db[folder_path].fuzz) :
                              /\ row.word = said[i]
                              /\ results[i][2] =
                                    ratio(normalize(word),
                                          normalize(row.tieng))
                  /\ \A i, j \in 1..Len(said) :
                        i < j => Geq(results[i][2], results[j][2])

C4_Witness ==
    /\ pc = "searched"
    /\ ~HasMarker(word)
    /\ ExactHits = <<>>
    /\ LemmaHits = <<>>
    /\ Len(results) > 5
    /\ Len(Suggestions(search_message.suggestion)) = 5
    /\ results[1][2] # results[5][2]

\* C5: every returned value is either candidates without a message or a
\* message without candidates.
C5_OneVariant ==
    Returned
        => \/ synsets # <<>> /\ search_message = None
           \/ synsets = <<>> /\ search_message # None

C5_Witness ==
    /\ pc = "shown"
    /\ HasMarker(word)
    /\ synsets = <<>>
    /\ search_message = NotExistMessage(strip(word))

\* C6: resolution never ends in an exception for something not found.
C6_NoException == pc # "search_raised"

\* C7: every candidate of a resolved query is a node identifier.
C7_CandidatesAreIds ==
    (Returned /\ search_message = None)
        => \A i \in 1..Len(synsets) : synsets[i].kind = "str"

---------------------------------------------------------------------------
\* Properties of forest construction.

\* NodeFamily(...) has been called and has ended.
BuildEnded == pc \in {"built", "build_raised"}

---------------------------------------------------------------------------
\* Properties of the annotation lookup.

\* The rows of VIETNET_DATA the last lookup asked for, in store order.
LookupRows ==
    SelectSeq(db[lookup.db_path].data,
              LAMBDA row : row.synset_id = lookup.synset_id)

\* `text` is made of the pieces "{k}. {t[k]} | ", k = 1 .. Len(t).
Numbered(text, t) ==
    /\ Len(text) = 4 * Len(t)
    /\ \A k \in 1..Len(t) :
          /\ text[4 * k - 3] = ToString(k)
          /\ text[4 * k - 2] = ". "
          /\ text[4 * k - 1] = t[k]
          /\ text[4 * k] = " | "

\* C12: with n >= 1 rows the definition string is one piece "{i}. {d} | " per
\* row, in store order, i = 1..n; a null definition still makes a piece.
C12_Definitions ==
    (lookup # None /\ LookupRows # <<>>)
        => Numbered(lookup.value.viet_definition.value,
                    [i \in 1..Len(LookupRows) |->
                        IF LookupRows[i].viet_definition = None THEN "None"
                        ELSE LookupRows[i].viet_definition.value])

C12_Witness ==
    /\ lookup # None
    /\ Len(LookupRows) = 2
    /\ LookupRows[1].viet_definition = None
    /\ LookupRows[2].viet_definition = Str("B")
    /\ lookup.value.viet_definition
          = Str(<< "1", ". ", "None", " | ", "2", ". ", "B", " | " >>)

\* C13: the example string has one piece per row with a non-null example and
\* none for the others, numbered 1, 2, ... over the non-null rows only.
C13_Examples ==
    (lookup # None /\ LookupRows # <<>>)
        => LET given == SelectSeq(LookupRows,
                                  LAMBDA row : row.viet_example # None)
           IN  Numbered(lookup.value.viet_example.value,
                        [k \in 1..Len(given) |-> given[k].viet_example.value])

C13_Witness ==
    /\ lookup # None
    /\ Len(LookupRows) = 2
    /\ LookupRows[1].viet_definition = Str("A")
    /\ LookupRows[1].viet_example = None
    /\ LookupRows[2].viet_definition = Str("B")
    /\ LookupRows[2].viet_example = Str("ex1")
    /\ lookup.value.viet_definition
          = Str(<< "1", ". ", "A", " | ", "2", ". ", "B", " | " >>)
    /\ lookup.value.viet_example = Str(<< "1", ". ", "ex1", " | " >>)

\* C14: for a synset with no row in the store the lookup returns a record of
\* absent fields, and the node of that synset is constructed.
C14_NoRows ==
    (/\ tree_node # None
     /\ tree_node.synset.kind = "Synset"
     /\ lookup.synset_id = tree_node.synset.id
     /\ lookup.db_path = tree_node.db_path
     /\ LookupRows = <<>>)
        => /\ \A f \in DOMAIN lookup.value : lookup.value[f] = None
           /\ tree_node.value.kind = "Node"

\* C15: every record the lookup returns carries is_same, and no node
\* construction fails for want of it.
C15_IsSame ==
    /\ lookup # None => "is_same" \in DOMAIN lookup.value
    /\ (tree_node # None /\ tree_node.value.kind = "Error")
          => tree_node.value.type # "KeyError"

\* C16: no call changes the store, and a lookup repeated for the same
\* (synset_id, db_path), whatever was called in between, returns the same
\* record.
C16_ReadOnly ==
    [][ /\ db' = db
        /\ (/\ lookup # None
            /\ lookup' # None
            /\ lookup'.synset_id = lookup.synset_id
            /\ lookup'.db_path = lookup.db_path)
              => lookup'.value = lookup.value ]_vars

C16_Witness ==
    /\ lookup # None
    /\ LookupRows # <<>>
    /\ tree_node # None
    /\ synsets # <<>>
    /\ "fuzzy" \notin calls

---------------------------------------------------------------------------
\* Properties of the matchers.

\* The (word, score) pairs of the rows of VIETNET_FUZZ_SEARCH whose score
\* against the query is at least the threshold.
Qualifying ==
    LET rows == db[folder_path].fuzz
        Score(i) == ratio(normalize(word), normalize(rows[i].tieng))
    IN  { << rows[i].word, Score(i) >> :
          i \in {j \in 1..Len(rows) :
                  Score(j)[1] >= Threshold * Score(j)[2]} }

Descending(res) ==
    \A i, j \in 1..Len(res) :
        i < j => res[i][2][1] * res[j][2][2] >= res[j][2][1] * res[i][2][2]

\* C17 as stated: the list the fuzzy matcher returns has at most 5 entries,
\* each from a row scoring >= threshold, none of the omitted rows scores
\* strictly higher than a returned one, and it is empty when no row reaches
\* the threshold.
C17_TopFive ==
    (matched # None /\ matched.matcher = "fuzzy")
        => /\ Len(matched.value) <= 5
           /\ Range(matched.results) \subseteq Qualifying
           /\ \A q \in Qualifying \ Range(matched.results) :
                 \A r \in Range(matched.results) :
                     q[2][1] * r[2][2] <= r[2][1] * q[2][2]
           /\ Qualifying = {} => matched.value = <<>>

\* C17: the list the fuzzy matcher returns holds the word of every distinct
\* (word, score) pair of a row scoring >= threshold, once each, in order of
\* non-increasing score; it is not cut to 5 and is empty when no row reaches
\* the threshold.
C17_AllQualifying ==
    (matched # None /\ matched.matcher = "fuzzy")
        => /\ Range(matched.results) = Qualifying
           /\ Len(matched.results) = Cardinality(Qualifying)
           /\ Descending(matched.results)
           /\ Len(matched.value) = Len(matched.results)
           /\ \A i \in 1..Len(matched.value) :
                 matched.value[i] = matched.results[i][1]

C17_Witness ==
    /\ matched # None
    /\ matched.matcher = "fuzzy"
    /\ Len(matched.value) = 6
    /\ << "w5", << 80, 1 >> >> \in Range(matched.results)

\* s and t are equal once the spaces around them are dropped and the case of
\* the letters is ignored.
SameLetter(c, d) == c = d \/ {c, d} = {"a", "A"}
Inner(s, i, j) ==
    /\ \A k \in 1..Len(s) : (k < i \/ k > j) => s[k] = " "
    /\ i <= j => (s[i] # " " /\ s[j] # " ")
SameText(s, t) ==
    \E i1 \in 1..(Len(s) + 1), j1 \in 0..Len(s),
       i2 \in 1..(Len(t) + 1), j2 \in 0..Len(t) :
        /\ i1 <= j1 + 1
        /\ i2 <= j2 + 1
        /\ Inner(s, i1, j1)
        /\ Inner(t, i2, j2)
        /\ j1 - i1 = j2 - i2
        /\ \A k \in 0..(j1 - i1) : SameLetter(s[i1 + k], t[i2 + k])

\* C18: the exact matcher returns the synset ids of exactly the rows whose
\* string equals the query up to letter case and surrounding spaces, in row
\* order; inner spaces count, and without a match the list is empty.
C18_ExactMatch ==
    (matched # None /\ matched.matcher = "exact")
        => LET hits == SelectSeq(db[folder_path].exact,
                                 LAMBDA row : SameText(row.tieng, word))
           IN  /\ Len(matched.value) = Len(hits)
               /\ \A i \in 1..Len(hits) : matched.value[i] = hits[i].synset_id

C18_Witness ==
    /\ matched # None
    /\ matched.matcher = "exact"
    /\ word = << "A", " ", "a" >>
    /\ folder_path = FolderV1
    /\ Len(db[FolderV1].exact) = 2
    /\ db[FolderV1].exact[1].tieng = << " ", "a", " ", "A" >>
    /\ db[FolderV1].exact[2].tieng = << "a", "a" >>
    /\ matched.value = << IdA >>

---------------------------------------------------------------------------
\* Properties of the order of calls.

\* C22: a query with the marker "oewn-" anywhere in it is served by
\* lexicon.synset on the trimmed query alone: neither matcher and no lemma
\* lookup is called, no store is read by the search, and what is returned is
\* the trimmed query or the message that it does not exist, never suggestions.
C22_MarkerOnly ==
    (Ended /\ Marker \in Range(word))
        => /\ calls = {"synset"}
           /\ results = <<>>
           /\ pc \in {"searched", "shown", "search_raised"} => reads = {}
           /\ Returned
                => \/ /\ synsets = << Str(strip(word)) >>
                      /\ search_message = None
                   \/ /\ synsets = <<>>
                      /\ search_message = [kind |-> "Synset_ID khong ton tai",
                                           ssid |-> strip(word)]

C22_Witness ==
    /\ pc = "shown"
    /\ word = << " ", "a", Marker >>
    /\ calls = {"synset"}
    /\ search_message = [kind |-> "Synset_ID khong ton tai",
                         ssid |-> << "a", Marker >>]

\* C21: a returned message is shown and nothing is built or looked up; with
\* no message the forest is built, one tree per returned candidate and in
\* their order; the fuzzy matcher is called only when the exact matcher and
\* the lemma lookup both found nothing.
C21_ExpandAfterResolve ==
    /\ pc = "shown"
          => /\ search_message # None
             /\ families = <<>>
             /\ reads \subseteq (IF "exact" \in calls THEN {folder_path}
                                 ELSE {})
    /\ BuildEnded
          => /\ search_message = None
             /\ pc = "built"
             /\ Len(families) = Len(synsets)
             /\ \A i \in 1..Len(synsets) : families[i]._synset = synsets[i]
    /\ "fuzzy" \in calls => ExactHits = <<>> /\ LemmaHits = <<>>

---------------------------------------------------------------------------
\* Properties of get_all_hyponyms.

\* The ids that a path of one or more hyponym edges leads to from `root`.
Below(root) ==
    { n \in lexicon.ids :
        \E k \in 1..Cardinality(lexicon.ids) :
            \E path \in [1..(k + 1) -> lexicon.ids] :
                /\ path[1] = root
                /\ path[k + 1] = n
                /\ \A i \in 1..k :
                      path[i + 1]
                          \in Range(lexicon.relations[path[i]]["hyponym"]) }

C23_Safe ==
    /\ stage # "raised"
    /\ \A i, j \in 1..Len(popped) : i # j => popped[i] # popped[j]
    /\ stage = "returned"
          => hyponyms = SetOf(IF root_synset_id \in lexicon.ids
                              THEN Below(root_synset_id) \ {root_synset_id}
                              ELSE {})

\* C23: get_all_hyponyms returns on every graph, cycles and shared
\* descendants included; no synset is taken from the queue twice; the set
\* returned is exactly the ids reachable from the root by one or more hyponym
\* edges, without the root itself, and is empty for a root the provider does
\* not hold.
C23_AllHyponyms == [] C23_Safe /\ <>(stage = "returned")

C23_Witness ==
    /\ stage = "returned"
    /\ root_synset_id = IdA
    /\ lexicon.relations[IdA]["hyponym"] = << IdB, IdC >>
    /\ lexicon.relations[IdB]["hyponym"] = << IdC, IdA >>
    /\ lexicon.relations[IdC]["hyponym"] = << IdC >>
    /\ popped = << IdA, IdB, IdC >>
    /\ hyponyms = SetOf({IdB, IdC})

====
